---- MODULE Spec2Model ----
(***************************************************************************)
(* OpenVPN control-channel HMAC (openvpn/crypto/ovpnhmac.hpp).             *)
(*                                                                         *)
(* The model holds one Context (CryptoOvpnHMACContext), one Instance       *)
(* (CryptoOvpnHMACInstance, which owns an OvpnHMAC engine and through it   *)
(* the keyed-hash context ctx), and one caller-owned packet buffer.        *)
(* Every call is one action; it leaves the call's arguments, the state it  *)
(* found and its outcome in `last`, and the caller then takes the result   *)
(* (Return) before the next call.                                          *)
(*                                                                         *)
(* The keyed-hash primitive (CRYPTO_API::HMACContext), the digest registry *)
(* (CryptoAlgs) and crypto::memneq are not part of ovpnhmac.hpp; they are  *)
(* modelled from their interface.  The keyed hash is a free constructor:   *)
(* byte i of the tag of (digest, key, message) is the cell                 *)
(* TagCell(digest, key, message, i), so it is injective on its input.      *)
(* Digest sizes are scaled down (MD5 -> 1 byte, SHA1 -> 2 bytes) and       *)
(* size_t is WordBits wide.  A tag operation on an engine that was never   *)
(* keyed is a caller error whose outcome the primitive's interface does    *)
(* not fix; the tag operations are modelled on a keyed engine only.        *)
(***************************************************************************)
EXTENDS Integers, Sequences, FiniteSets, TLC

(* ------------------------------ bounds -------------------------------- *)
MaxData == 4
MaxOps == 2
MaxKey == 2
MaxIn == 1
MaxByte == 2
MaxL2 == 2
WordBits == 3

(* ------------------------------ values -------------------------------- *)
WordMod == 2 ^ WordBits
Word == 0..(WordMod - 1)
Byte == 0..MaxByte
KeyByte == {1, 2}

Min(a, b) == IF a < b THEN a ELSE b

SeqsUpTo(S, n) == UNION {[1..k -> S] : k \in 0..n}

\* a byte of memory: a plain byte, or byte v of a tag
ByteCell(b) == [tag |-> FALSE, v |-> b, d |-> "NONE", key |-> <<>>, msg |-> <<>>]
TagCell(d, key, msg, i) == [tag |-> TRUE, v |-> i, d |-> d, key |-> key, msg |-> msg]
ByteCells == {ByteCell(b) : b \in Byte}

\* StaticKey: a byte buffer of any length
Keys == SeqsUpTo(KeyByte, MaxKey)

\* packets handed over by the packet I/O layer
Ramp(n) == [i \in 1..n |-> ByteCell((i - 1) % (MaxByte + 1))]
Packets == {Ramp(n) : n \in 0..MaxData}

(* -------------------------- digest registry --------------------------- *)
Types == {"NONE", "AES_128_CBC", "MD5", "SHA1"}
Legal == {"MD5", "SHA1"}

\* CryptoAlgs::size(type), CryptoAlgs::get(type).size()
AlgSize(d) == CASE d = "MD5" -> 1 [] d = "SHA1" -> 2 [] OTHER -> 0

\* CryptoAlgs::legal_dc_digest(type): the type, or a throw
legal_dc_digest(d) == IF d \in Legal THEN [ok |-> TRUE, digest |-> d]
                      ELSE [ok |-> FALSE, digest |-> "NONE"]

(* ------------------------ keyed-hash primitive ------------------------ *)
NoCtx == [initialized |-> FALSE, digest |-> "NONE", key |-> <<>>, acc |-> <<>>]

ctx_is_initialized(c) == c.initialized
ctx_size(c) == AlgSize(c.digest)
\* init(digest, key, key_size): reads key_size bytes of the key
ctx_init(c, d, key, n) ==
  [initialized |-> TRUE, digest |-> d, key |-> SubSeq(key, 1, Min(n, Len(key))), acc |-> <<>>]
ctx_reset(c) == [c EXCEPT !.acc = <<>>]
ctx_update(c, bytes) == [c EXCEPT !.acc = @ \o bytes]
\* final(out): the tag of everything fed since the last reset
HmacTag(d, key, msg) == [i \in 1..AlgSize(d) |-> TagCell(d, key, msg, i)]
ctx_final(c) == HmacTag(c.digest, c.key, c.acc)

(* --------------------------- crypto::memneq --------------------------- *)
\* looks at all n bytes, whatever they are
RECURSIVE memneq_loop(_, _, _, _)
memneq_loop(a, b, n, i) ==
  IF i > n THEN [neq |-> FALSE, work |-> 0]
  ELSE LET r == memneq_loop(a, b, n, i + 1)
       IN [neq |-> (a[i] # b[i]) \/ r.neq, work |-> r.work + 1]
memneq(a, b, n) == memneq_loop(a, b, n, 1)

(* ------------------------------ OvpnHMAC ------------------------------ *)
\* n bytes at data + off; a byte outside [0, data_size) is whatever lies there (g)
ReadAt(data, data_size, off, n, g) ==
  [i \in 1..n |-> IF off + i <= data_size THEN data[off + i] ELSE g]
\* the offsets of those bytes
OffsAt(off, n) == [i \in 1..n |-> off + i - 1]
\* bytes stored at data + off; a store outside the buffer lands outside it
WriteAt(data, off, bytes) ==
  [i \in 1..Len(data) |-> IF i > off /\ i <= off + Len(bytes) THEN bytes[i - off] ELSE data[i]]

defined(c) == ctx_is_initialized(c)
output_size(c) == ctx_size(c)

\* faulty variant: the context is initialised before the key is checked
init_check_late(c, digest, key) ==
  LET n == AlgSize(digest)
      c1 == ctx_init(c, digest, key, n)
  IN IF Len(key) < n
     THEN [err |-> "ovpn_hmac_context_digest_size", ctx |-> c1]
     ELSE [err |-> "none", ctx |-> c1]

init(c, digest, key) ==
  LET n == AlgSize(digest)
  IN IF Len(key) < n
     THEN [err |-> "ovpn_hmac_context_digest_size", ctx |-> c]
     ELSE [err |-> "none", ctx |-> ctx_init(c, digest, key, n)]

\* faulty variant: the context is not reset before the input is fed
hmac_no_reset(c, in) ==
  LET c2 == ctx_update(c, in)
  IN [ctx |-> c2, out |-> ctx_final(c2)]

hmac(c, in) ==
  LET c1 == ctx_reset(c)
      c2 == ctx_update(c1, in)
  IN [ctx |-> c2, out |-> ctx_final(c2)]

\* size_t arithmetic
lsum(l1, l2, l3) == (l1 + l2 + l3) % WordMod

\* faulty variant: the fields are hashed in canonical order, Prefix first
ovpn_hmac_pre_canonical(c, data, data_size, l1, l2, l3, g) ==
  LET ls == lsum(l1, l2, l3)
  IN IF ls > data_size \/ l2 # ctx_size(c)
     THEN [ok |-> FALSE, ctx |-> c, offs |-> <<>>]
     ELSE LET c0 == ctx_reset(c)
              c1 == ctx_update(c0, ReadAt(data, data_size, 0, l1, g))
              c2 == ctx_update(c1, ReadAt(data, data_size, l1 + l2, l3, g))
              c3 == ctx_update(c2, ReadAt(data, data_size, ls, data_size - ls, g))
          IN [ok |-> TRUE, ctx |-> c3,
              offs |-> OffsAt(0, l1) \o OffsAt(l1 + l2, l3) \o OffsAt(ls, data_size - ls)]

\* faulty variant: the bytes after the PacketId are not hashed
ovpn_hmac_pre_no_payload(c, data, data_size, l1, l2, l3, g) ==
  LET ls == lsum(l1, l2, l3)
  IN IF ls > data_size \/ l2 # ctx_size(c)
     THEN [ok |-> FALSE, ctx |-> c, offs |-> <<>>]
     ELSE LET c0 == ctx_reset(c)
              c1 == ctx_update(c0, ReadAt(data, data_size, l1 + l2, l3, g))
              c2 == ctx_update(c1, ReadAt(data, data_size, 0, l1, g))
          IN [ok |-> TRUE, ctx |-> c2, offs |-> OffsAt(l1 + l2, l3) \o OffsAt(0, l1)]

\* faulty variant: l2 is not compared with the digest's output size
ovpn_hmac_pre_any_l2(c, data, data_size, l1, l2, l3, g) ==
  LET ls == lsum(l1, l2, l3)
  IN IF ls > data_size
     THEN [ok |-> FALSE, ctx |-> c, offs |-> <<>>]
     ELSE LET c0 == ctx_reset(c)
              c1 == ctx_update(c0, ReadAt(data, data_size, l1 + l2, l3, g))
              c2 == ctx_update(c1, ReadAt(data, data_size, 0, l1, g))
              c3 == ctx_update(c2, ReadAt(data, data_size, ls, data_size - ls, g))
          IN [ok |-> TRUE, ctx |-> c3,
              offs |-> OffsAt(l1 + l2, l3) \o OffsAt(0, l1) \o OffsAt(ls, data_size - ls)]

ovpn_hmac_pre(c, data, data_size, l1, l2, l3, g) ==
  LET ls == lsum(l1, l2, l3)
  IN IF ls > data_size \/ l2 # ctx_size(c)
     THEN [ok |-> FALSE, ctx |-> c, offs |-> <<>>]
     ELSE LET c0 == ctx_reset(c)
              c1 == ctx_update(c0, ReadAt(data, data_size, l1 + l2, l3, g))
              c2 == ctx_update(c1, ReadAt(data, data_size, 0, l1, g))
              c3 == ctx_update(c2, ReadAt(data, data_size, ls, data_size - ls, g))
          IN [ok |-> TRUE, ctx |-> c3,
              offs |-> OffsAt(l1 + l2, l3) \o OffsAt(0, l1) \o OffsAt(ls, data_size - ls)]

\* faulty variant: the tag is stored at the start of the buffer
ovpn_hmac_gen_at_start(c, data, data_size, l1, l2, l3, g) ==
  LET p == ovpn_hmac_pre(c, data, data_size, l1, l2, l3, g)
  IN IF p.ok
     THEN [err |-> "none", ctx |-> p.ctx, data |-> WriteAt(data, 0, ctx_final(p.ctx)),
           offs |-> p.offs, wr |-> OffsAt(0, ctx_size(p.ctx))]
     ELSE [err |-> "ovpn_hmac_context_bad_sizing", ctx |-> p.ctx, data |-> data,
           offs |-> p.offs, wr |-> <<>>]

\* faulty variant: one byte more than the tag is stored
ovpn_hmac_gen_one_more(c, data, data_size, l1, l2, l3, g) ==
  LET p == ovpn_hmac_pre(c, data, data_size, l1, l2, l3, g)
  IN IF p.ok
     THEN [err |-> "none", ctx |-> p.ctx,
           data |-> WriteAt(data, l1, ctx_final(p.ctx) \o <<ByteCell(0)>>),
           offs |-> p.offs, wr |-> OffsAt(l1, ctx_size(p.ctx) + 1)]
     ELSE [err |-> "ovpn_hmac_context_bad_sizing", ctx |-> p.ctx, data |-> data,
           offs |-> p.offs, wr |-> <<>>]

ovpn_hmac_gen(c, data, data_size, l1, l2, l3, g) ==
  LET p == ovpn_hmac_pre(c, data, data_size, l1, l2, l3, g)
  IN IF p.ok
     THEN [err |-> "none", ctx |-> p.ctx, data |-> WriteAt(data, l1, ctx_final(p.ctx)),
           offs |-> p.offs, wr |-> OffsAt(l1, ctx_size(p.ctx))]
     ELSE [err |-> "ovpn_hmac_context_bad_sizing", ctx |-> p.ctx, data |-> data,
           offs |-> p.offs, wr |-> <<>>]

\* faulty variant: a compare that stops at the first byte that differs
RECURSIVE memcmp_loop(_, _, _, _)
memcmp_loop(a, b, n, i) ==
  IF i > n THEN [neq |-> FALSE, work |-> 0]
  ELSE IF a[i] # b[i] THEN [neq |-> TRUE, work |-> 1]
  ELSE LET r == memcmp_loop(a, b, n, i + 1)
       IN [neq |-> r.neq, work |-> r.work + 1]
tag_neq_memcmp(embedded, local_hmac, l2) == memcmp_loop(embedded, local_hmac, l2, 1)

\* the comparison of the embedded tag with the recomputed one
tag_neq(embedded, local_hmac, l2) == memneq(embedded, local_hmac, l2)

ovpn_hmac_cmp(c, data, data_size, l1, l2, l3, g) ==
  LET p == ovpn_hmac_pre(c, data, data_size, l1, l2, l3, g)
  IN IF p.ok
     THEN LET local_hmac == ctx_final(p.ctx)
              m == tag_neq(ReadAt(data, data_size, l1, l2, g), local_hmac, l2)
          IN [ret |-> ~m.neq, err |-> "none", ctx |-> p.ctx,
              offs |-> p.offs, rd |-> OffsAt(l1, l2), work |-> m.work]
     ELSE [ret |-> FALSE, err |-> "none", ctx |-> p.ctx, offs |-> p.offs, rd |-> <<>>,
           work |-> 0]

(* ------------------------------- state -------------------------------- *)
VARIABLES
  context,   \* the Context: [exists, digest]
  inst,      \* the Instance: [exists, digest, ovpn_hmac]
  data,      \* the packet buffer, data_size = Len(data)
  sealed,    \* the buffer, layout and key of the last well-formed ovpn_hmac_gen
  bound,     \* the key bytes of the last init that succeeded
  nops,      \* tag operations made so far
  last       \* the call just made: arguments, state found, outcome

vars == <<context, inst, data, sealed, bound, nops, last>>

NoContext == [exists |-> FALSE, digest |-> "NONE"]
NoInstance == [exists |-> FALSE, digest |-> "NONE", ovpn_hmac |-> NoCtx]
NoSeal == [on |-> FALSE, data |-> <<>>, l1 |-> 0, l2 |-> 0, l3 |-> 0, d |-> "NONE", key |-> <<>>]
Idle == [op |-> "idle", digest |-> "NONE", key |-> <<>>, ctx0 |-> NoCtx, data0 |-> <<>>,
         l1 |-> 0, l2 |-> 0, l3 |-> 0, inp |-> <<>>, out |-> <<>>, ret |-> FALSE,
         err |-> "none", offs |-> <<>>, rd |-> <<>>, wr |-> <<>>, work |-> 0, n |-> 0]

Init ==
  /\ context = NoContext
  /\ inst = NoInstance
  /\ data = <<>>
  /\ sealed = NoSeal
  /\ bound = <<>>
  /\ nops = 0
  /\ last = Idle

(* ------------------------ Factory and Context ------------------------- *)
\* faulty variant: the digest is taken as given
NewContext_unfiltered(digest_type) ==
  [err |-> "none", context |-> [exists |-> TRUE, digest |-> digest_type]]

\* CryptoOvpnHMACContext(digest_type)
NewContext(digest_type) ==
  LET r == legal_dc_digest(digest_type)
  IN IF r.ok THEN [err |-> "none", context |-> [exists |-> TRUE, digest |-> r.digest]]
     ELSE [err |-> "crypto_alg", context |-> NoContext]

\* CryptoOvpnHMACInstance(digest_arg)
NewInstance(digest_arg) == [exists |-> TRUE, digest |-> digest_arg, ovpn_hmac |-> NoCtx]

\* CryptoOvpnHMACFactory::new_obj(digest_type)
FactoryNewObj(digest_type) ==
  /\ last.op = "idle"
  /\ ~context.exists
  /\ LET r == NewContext(digest_type)
     IN /\ context' = r.context
        /\ last' = [Idle EXCEPT !.op = "factory_new_obj", !.digest = digest_type, !.err = r.err]
  /\ UNCHANGED <<inst, data, sealed, bound, nops>>

\* CryptoOvpnHMACContext::size()
ContextSize ==
  /\ last.op = "idle"
  /\ context.exists
  /\ last' = [Idle EXCEPT !.op = "context_size", !.digest = context.digest,
                          !.n = AlgSize(context.digest)]
  /\ UNCHANGED <<context, inst, data, sealed, bound, nops>>

\* CryptoOvpnHMACContext::new_obj()
ContextNewObj ==
  /\ last.op = "idle"
  /\ context.exists
  /\ ~inst.exists
  /\ inst' = NewInstance(context.digest)
  /\ last' = [Idle EXCEPT !.op = "context_new_obj", !.digest = context.digest]
  /\ UNCHANGED <<context, data, sealed, bound, nops>>

(* ------------------------------ Instance ------------------------------ *)
\* CryptoOvpnHMACInstance::init(key)
InstanceInit(key) ==
  /\ last.op = "idle"
  /\ inst.exists
  /\ nops < MaxOps
  /\ LET r == init(inst.ovpn_hmac, inst.digest, key)
     IN /\ inst' = [inst EXCEPT !.ovpn_hmac = r.ctx]
        /\ last' = [Idle EXCEPT !.op = "init", !.digest = inst.digest, !.key = key,
                                !.ctx0 = inst.ovpn_hmac, !.err = r.err]
  /\ bound' = IF Len(key) >= AlgSize(inst.digest)
              THEN SubSeq(key, 1, AlgSize(inst.digest)) ELSE bound
  /\ UNCHANGED <<context, data, sealed, nops>>

\* CryptoOvpnHMACInstance::output_size()
InstanceOutputSize ==
  /\ last.op = "idle"
  /\ inst.exists
  /\ defined(inst.ovpn_hmac)
  /\ last' = [Idle EXCEPT !.op = "output_size", !.ctx0 = inst.ovpn_hmac,
                          !.n = output_size(inst.ovpn_hmac)]
  /\ UNCHANGED <<context, inst, data, sealed, bound, nops>>

\* OvpnHMAC::hmac(out, out_size, in, in_size) on the Instance's engine
Hmac(in) ==
  /\ last.op = "idle"
  /\ inst.exists
  /\ defined(inst.ovpn_hmac)
  /\ nops < MaxOps
  /\ LET r == hmac(inst.ovpn_hmac, in)
     IN /\ inst' = [inst EXCEPT !.ovpn_hmac = r.ctx]
        /\ last' = [Idle EXCEPT !.op = "hmac", !.ctx0 = inst.ovpn_hmac, !.inp = in,
                                !.out = r.out]
  /\ nops' = nops + 1
  /\ UNCHANGED <<context, data, sealed, bound>>

\* CryptoOvpnHMACInstance::ovpn_hmac_gen(data, data_size, l1, l2, l3)
Gen(l1, l2, l3, g) ==
  /\ last.op = "idle"
  /\ inst.exists
  /\ defined(inst.ovpn_hmac)
  /\ nops < MaxOps
  /\ LET r == ovpn_hmac_gen(inst.ovpn_hmac, data, Len(data), l1, l2, l3, g)
     IN /\ inst' = [inst EXCEPT !.ovpn_hmac = r.ctx]
        /\ data' = r.data
        /\ sealed' = IF r.err # "none" THEN sealed
                     ELSE IF l1 + l2 + l3 <= Len(data)
                     THEN [on |-> TRUE, data |-> r.data, l1 |-> l1, l2 |-> l2, l3 |-> l3,
                           d |-> inst.digest, key |-> bound]
                     ELSE NoSeal
        /\ last' = [Idle EXCEPT !.op = "gen", !.ctx0 = inst.ovpn_hmac, !.data0 = data,
                                !.l1 = l1, !.l2 = l2, !.l3 = l3, !.err = r.err,
                                !.offs = r.offs, !.wr = r.wr]
  /\ nops' = nops + 1
  /\ UNCHANGED <<context, bound>>

\* CryptoOvpnHMACInstance::ovpn_hmac_cmp(data, data_size, l1, l2, l3)
Cmp(l1, l2, l3, g) ==
  /\ last.op = "idle"
  /\ inst.exists
  /\ defined(inst.ovpn_hmac)
  /\ nops < MaxOps
  /\ LET r == ovpn_hmac_cmp(inst.ovpn_hmac, data, Len(data), l1, l2, l3, g)
     IN /\ inst' = [inst EXCEPT !.ovpn_hmac = r.ctx]
        /\ last' = [Idle EXCEPT !.op = "cmp", !.ctx0 = inst.ovpn_hmac, !.data0 = data,
                                !.l1 = l1, !.l2 = l2, !.l3 = l3, !.ret = r.ret,
                                !.err = r.err, !.offs = r.offs, !.rd = r.rd,
                                !.work = r.work]
  /\ nops' = nops + 1
  /\ UNCHANGED <<context, data, sealed, bound>>

(* --------------------------- the environment -------------------------- *)
\* the packet I/O layer hands over a packet, before the first tag operation
NewBuffer(p) ==
  /\ last.op = "idle"
  /\ nops = 0
  /\ data' = p
  /\ sealed' = NoSeal
  /\ last' = [Idle EXCEPT !.op = "new_buffer"]
  /\ UNCHANGED <<context, inst, bound, nops>>

\* one byte of a sealed packet is changed in flight
Tamper(i, c) ==
  /\ last.op = "idle"
  /\ sealed.on
  /\ data = sealed.data
  /\ i \in 1..Len(data)
  /\ c # data[i]
  /\ data' = [data EXCEPT ![i] = c]
  /\ last' = [Idle EXCEPT !.op = "tamper", !.n = i - 1]
  /\ UNCHANGED <<context, inst, sealed, bound, nops>>

\* the caller takes the call's result
Return ==
  /\ last.op # "idle"
  /\ last' = Idle
  /\ UNCHANGED <<context, inst, data, sealed, bound, nops>>

(* --------------------------- specifications --------------------------- *)
\* lengths whose sum does not overflow size_t
Seg == 0..(MaxData - 1)
Args == {t \in Seg \X (0..MaxL2) \X Seg : t[1] + t[2] + t[3] < WordMod}
HmacIn == SeqsUpTo(ByteCells, MaxIn)
\* with such lengths an accepted call reads nothing outside the buffer
NoGarbage == {ByteCell(0)}

Next ==
  \/ \E d \in Types : FactoryNewObj(d)
  \/ ContextSize
  \/ ContextNewObj
  \/ \E k \in Keys : InstanceInit(k)
  \/ InstanceOutputSize
  \/ \E in \in HmacIn : Hmac(in)
  \/ last.op = "idle" /\ \E t \in Args, g \in NoGarbage : Gen(t[1], t[2], t[3], g)
  \/ last.op = "idle" /\ \E t \in Args, g \in NoGarbage : Cmp(t[1], t[2], t[3], g)
  \/ \E p \in Packets : NewBuffer(p)
  \/ last.op = "idle" /\ \E i \in 1..MaxData, c \in ByteCells : Tamper(i, c)
  \/ Return

Spec == Init /\ [][Next]_vars

\* one engine, one packet, and every triple of lengths size_t can hold
WordArgs == Word \X Word \X Word

NextWord ==
  \/ \E d \in {"NONE", "MD5"} : FactoryNewObj(d)
  \/ ContextNewObj
  \/ \E k \in {<<1>>} : InstanceInit(k)
  \/ last.op = "idle" /\ \E t \in WordArgs, g \in ByteCells : Gen(t[1], t[2], t[3], g)
  \/ last.op = "idle" /\ \E t \in WordArgs, g \in ByteCells : Cmp(t[1], t[2], t[3], g)
  \/ \E p \in {Ramp(2)} : NewBuffer(p)
  \/ Return

SpecWord == Init /\ [][NextWord]_vars

(* ------------------------------- claims ------------------------------- *)
Call(op) == last.op = op
TagCall == last.op \in {"gen", "cmp"}
Len0 == Len(last.data0)
Size0 == AlgSize(inst.digest)
TrueSum == last.l1 + last.l2 + last.l3
\* the layout the packet format asks for
WellFormed == TrueSum <= Len0 /\ last.l2 = Size0
\* the layout check as size_t arithmetic makes it
Refused == last.l2 # Size0 \/ (TrueSum % WordMod) > Len0

Prefix(buf) == SubSeq(buf, 1, last.l1)
TagSlot(buf) == SubSeq(buf, last.l1 + 1, last.l1 + last.l2)
PacketId(buf) == SubSeq(buf, last.l1 + last.l2 + 1, TrueSum)
Payload(buf) == SubSeq(buf, TrueSum + 1, Len(buf))
HashOrder(buf) == PacketId(buf) \o Prefix(buf) \o Payload(buf)
Range(from, n) == [i \in 1..n |-> from + i - 1]
Count(s, x) == Cardinality({i \in 1..Len(s) : s[i] = x})
Diff(a, b) == {i \in 1..Len(a) : a[i] # b[i]}

\* the call is made with the layout, digest and key of the last ovpn_hmac_gen
AsSealed ==
  /\ sealed.on
  /\ last.l1 = sealed.l1 /\ last.l2 = sealed.l2 /\ last.l3 = sealed.l3
  /\ inst.digest = sealed.d /\ bound = sealed.key
  /\ Len0 = Len(sealed.data)

\* C1: round trip. A key at least as long as the digest requires is accepted by
\* init, ovpn_hmac_gen accepts every layout with l1+l2+l3 <= len and
\* l2 = output size, and ovpn_hmac_cmp on the buffer ovpn_hmac_gen left, with the
\* same lengths and the same keyed engine, returns true.
C1_RoundTrip ==
  /\ (Call("init") /\ Len(last.key) >= AlgSize(last.digest))
        => (last.err = "none" /\ defined(inst.ovpn_hmac))
  /\ (Call("gen") /\ WellFormed) => last.err = "none"
  /\ (Call("cmp") /\ AsSealed /\ last.data0 = sealed.data) => last.ret

C1_Witness ==
  /\ Call("cmp") /\ AsSealed /\ last.data0 = sealed.data /\ last.ret
  /\ last.l1 = 1 /\ last.l3 = 1 /\ Len0 = 4

\* C2: tamper detection. Once ovpn_hmac_gen has sealed a buffer, a buffer that
\* differs from it in exactly one byte (of the Prefix, the Tag, the PacketId or
\* the payload) is refused by ovpn_hmac_cmp with the same key and lengths.
C2_TamperDetected ==
  (Call("cmp") /\ AsSealed /\ Cardinality(Diff(last.data0, sealed.data)) = 1)
     => ~last.ret

\* the changed byte lies in the payload
C2_Witness ==
  /\ Call("cmp") /\ AsSealed /\ ~last.ret
  /\ last.l1 = 1 /\ last.l3 = 1
  /\ Diff(last.data0, sealed.data) = {4}

\* C3: hash input order. For a well-formed layout the bytes fed to the keyed hash
\* by ovpn_hmac_gen and ovpn_hmac_cmp are PacketId, then Prefix, then Payload:
\* no offset of the Tag slot is fed, every other offset of the buffer exactly once.
C3_HashOrder ==
  (TagCall /\ WellFormed) =>
     /\ inst.ovpn_hmac.acc = HashOrder(last.data0)
     /\ last.offs = Range(last.l1 + last.l2, last.l3) \o Range(0, last.l1)
                      \o Range(TrueSum, Len0 - TrueSum)
     /\ \A o \in 0..(Len0 - 1) :
          Count(last.offs, o) = IF last.l1 <= o /\ o < last.l1 + last.l2 THEN 0 ELSE 1

C3_Witness ==
  /\ Call("gen") /\ WellFormed /\ last.err = "none"
  /\ last.l1 = 1 /\ last.l3 = 1 /\ Len0 = 4
  /\ last.data0[1] # last.data0[3]
  /\ inst.ovpn_hmac.acc = <<last.data0[3], last.data0[1], last.data0[4]>>

C5_KeySizeRejection ==
  (Call("init") /\ Len(last.key) < AlgSize(last.digest)) =>
     /\ last.err = "ovpn_hmac_context_digest_size"
     /\ inst.ovpn_hmac = last.ctx0
     /\ (~defined(last.ctx0) => ~defined(inst.ovpn_hmac))

C5_Witness ==
  /\ Call("init") /\ last.err = "ovpn_hmac_context_digest_size"
  /\ Len(last.key) = 1 /\ AlgSize(last.digest) = 2
  /\ ~defined(inst.ovpn_hmac)

\* C6: ovpn_hmac_gen writes only the Tag slot. No byte of the buffer outside
\* [l1, l1+l2) changes, none at all when the call throws, and ovpn_hmac_cmp
\* changes none.
C6_GenWritesTagOnly ==
  /\ Call("gen") =>
       /\ Len(data) = Len0
       /\ \A i \in 1..Len0 :
            (i <= last.l1 \/ i > last.l1 + last.l2) => data[i] = last.data0[i]
       /\ last.err # "none" => data = last.data0
  /\ Call("cmp") => data = last.data0

C6_Witness ==
  /\ Call("gen") /\ last.err = "none"
  /\ last.l1 = 1 /\ last.l2 = 2 /\ Len0 = 4
  /\ data[2] # last.data0[2] /\ data[3] # last.data0[3]
  /\ data[1] = last.data0[1] /\ data[4] = last.data0[4]

\* C7: algorithm gating. A Context for a digest outside the legal set is refused
\* at construction, before any Instance or key exists; no Context or Instance ever
\* holds an illegal digest; a Context keeps its digest, and an Instance from
\* new_obj() has the Context's digest and is unkeyed.
C7_Gated ==
  /\ context.exists => context.digest \in Legal
  /\ inst.exists => inst.digest \in Legal
  /\ (Call("factory_new_obj") /\ last.digest \notin Legal) =>
        (last.err = "crypto_alg" /\ ~context.exists /\ ~inst.exists /\ bound = <<>>)
  /\ (Call("factory_new_obj") /\ last.digest \in Legal) =>
        (last.err = "none" /\ context = [exists |-> TRUE, digest |-> last.digest])
  /\ Call("context_new_obj") =>
        (inst.exists /\ inst.digest = context.digest /\ ~defined(inst.ovpn_hmac))
C7_Kept ==
  /\ context.exists => context' = context
  /\ inst.exists => (inst'.exists /\ inst'.digest = inst.digest)
C7_AlgorithmGating == []C7_Gated /\ [][C7_Kept]_vars

C7_Witness ==
  /\ Call("factory_new_obj") /\ last.digest = "AES_128_CBC"
  /\ last.err = "crypto_alg" /\ ~context.exists

\* C8: constant-time comparison. Whenever ovpn_hmac_cmp gets to compare the
\* embedded tag with the recomputed one, the compare looks at all l2 bytes,
\* wherever the first difference is.
C8_CompareAllBytes ==
  (Call("cmp") /\ ~Refused) => (last.work = last.l2 /\ Len(last.rd) = last.l2)

\* the tags differ in their first byte already
C8_Witness ==
  /\ Call("cmp") /\ ~Refused /\ ~last.ret
  /\ last.l2 = 2 /\ last.work = 2
  /\ last.data0[last.l1 + 1] # ctx_final(inst.ovpn_hmac)[1]

\* C9: history independence. Whatever calls came before, hmac returns the tag of
\* its input under the key of the last init that succeeded, ovpn_hmac_gen stores
\* the tag of the buffer's hash-order bytes under that key, and ovpn_hmac_cmp
\* returns whether the embedded tag is that tag.
C9_HistoryIndependent ==
  /\ Call("hmac") => last.out = HmacTag(inst.digest, bound, last.inp)
  /\ (Call("gen") /\ WellFormed) =>
        TagSlot(data) = HmacTag(inst.digest, bound, HashOrder(last.data0))
  /\ (Call("cmp") /\ WellFormed) =>
        (last.ret <=> TagSlot(last.data0) = HmacTag(inst.digest, bound, HashOrder(last.data0)))

\* hmac on an engine that still holds what an earlier call fed it
C9_Witness ==
  /\ Call("hmac") /\ last.ctx0.acc # <<>> /\ last.ctx0.acc # last.inp
  /\ last.out = HmacTag(inst.digest, bound, last.inp)

\* C10: bounds safety under machine arithmetic. ovpn_hmac_gen and ovpn_hmac_cmp
\* read and write only offsets in [0, data_size), and refuse every triple whose
\* true sum l1+l2+l3 exceeds data_size, also when the size_t sum wraps.
C10_BoundsSafe ==
  TagCall =>
     /\ \A i \in 1..Len(last.offs) : last.offs[i] < Len0
     /\ \A i \in 1..Len(last.rd) : last.rd[i] < Len0
     /\ \A i \in 1..Len(last.wr) : last.wr[i] < Len0
     /\ (TrueSum > Len0 /\ Call("gen")) => last.err = "ovpn_hmac_context_bad_sizing"
     /\ (TrueSum > Len0 /\ Call("cmp")) => (~last.ret /\ last.offs = <<>>)

====
